---- MODULE Spec2Model ----
(***************************************************************************)
(* Model of the NotificationsFilters view component                        *)
(* (plugins/notifications/src/components/NotificationsFilters).            *)
(*                                                                         *)
(* The component is a function of its props.  The parent container owns    *)
(* the props and the callbacks; here a callback records its invocation in  *)
(* `calls`, and the parent may re-render the component with any props and  *)
(* may mutate any object it was handed through onSortingChanged.           *)
(*                                                                         *)
(* JavaScript values:                                                      *)
(*   boolean | undefined  is one of "true", "false", "undefined";          *)
(*   an object reference  is an id into `heap`, 0 standing for undefined;  *)
(*   a SortBy prop value  is a record with a `defined` flag, so that the   *)
(*                        optional chaining `sortBy?.sort` is visible.     *)
(***************************************************************************)
EXTENDS Integers, Sequences, FiniteSets, TLC

(* Number of objects created by handleOnSortByChanged that the parent can  *)
(* keep alive at the same time.                                            *)
MaxFresh == 1

Undefined == "undefined"

Tri == {"true", "false", Undefined}

(* The values a change event can carry (event.target.value is `unknown`):  *)
(* the menu values of the select, the empty string, a string that is a key *)
(* of no table and, for the sort-by select, a property name every object   *)
(* inherits from Object.prototype.                                         *)
MenuViewValues == {"unread", "saved", "read", "all"}

InheritedKeys == {"toString"}

ViewEventValues == MenuViewValues \cup {"", "bogus"}

CreatedAfterEventValues == {"last24h", "lastWeek", "all", "", "bogus"}

SortByEventValues ==
  {"newest", "oldest", "topic", "origin", "", "bogus"} \cup InheritedKeys

(* ---------------- the two lookup tables ---------------- *)

(* getDate is represented by the number of hours it subtracts from now;    *)
(* -1 stands for the fixed date `new Date(0)`.                             *)
CreatedAfterOptionsInit ==
  [k \in {"last24h", "lastWeek", "all"} |->
     CASE k = "last24h"  -> [label |-> "Last 24h",  getDate |-> 24]
       [] k = "lastWeek" -> [label |-> "Last week", getDate |-> 7 * 24]
       [] k = "all"      -> [label |-> "Any time",  getDate |-> -1]]

(* Each entry's sortBy is an object of its own: a reference into heap.     *)
SortByOptions ==
  [k \in {"newest", "oldest", "topic", "origin"} |->
     CASE k = "newest" -> [label |-> "Newest on top", sortBy |-> 1]
       [] k = "oldest" -> [label |-> "Oldest on top", sortBy |-> 2]
       [] k = "topic"  -> [label |-> "Topic",         sortBy |-> 3]
       [] k = "origin" -> [label |-> "Origin",        sortBy |-> 4]]

TableIds == {SortByOptions[k].sortBy : k \in DOMAIN SortByOptions}

FreshIds == 5 .. (4 + MaxFresh)

ObjIds == TableIds \cup FreshIds

(* A slot of the heap that holds no object.                                *)
NoObject == [sort |-> "-", sortOrder |-> "-"]

(* The object `{}`: reading either property gives undefined.               *)
EmptyObject == [sort |-> Undefined, sortOrder |-> Undefined]

HeapInit ==
  [o \in ObjIds |->
     CASE o = 1 -> [sort |-> "created", sortOrder |-> "desc"]
       [] o = 2 -> [sort |-> "created", sortOrder |-> "asc"]
       [] o = 3 -> [sort |-> "topic",   sortOrder |-> "asc"]
       [] o = 4 -> [sort |-> "origin",  sortOrder |-> "asc"]
       [] OTHER -> NoObject]

(* The values of GetNotificationsOptions.sort, and one outside the type.   *)
SortFields == {"created", "topic", "origin"}

Sorts == SortFields \cup {"other"}

SortOrders == {"asc", "desc"}

(* The values of the `sorting` prop: undefined, or an object.              *)
UndefinedSortBy == [defined |-> FALSE, sort |-> Undefined, sortOrder |-> Undefined]

SortByValues ==
  {UndefinedSortBy} \cup
  {[defined |-> TRUE, sort |-> s, sortOrder |-> o] : s \in Sorts, o \in SortOrders}

CreatedAfterValues == {Undefined, "lastWeek"}

VARIABLES
  unreadOnly,          \* prop
  saved,               \* prop
  createdAfter,        \* prop
  sorting,             \* prop
  viewValue,           \* derived at render: value of the View select
  sortByText,          \* derived at render: value of the Sort by select
  createdAfterOptions, \* the CreatedAfterOptions table
  heap,                \* the sortBy objects of SortByOptions and the copies handed out
  received,            \* references the parent holds from onSortingChanged
  event,               \* the change event handled last
  calls,               \* the callbacks that event's handler invoked, in order
  threw                \* whether that handler raised a TypeError

vars ==
  <<unreadOnly, saved, createdAfter, sorting, viewValue, sortByText,
    createdAfterOptions, heap, received, event, calls, threw>>

props == <<unreadOnly, saved, createdAfter, sorting>>

derived == <<viewValue, sortByText>>

tables == <<createdAfterOptions, heap>>

(* ---------------- render ---------------- *)

(* sortBy?.sort and sortBy?.sortOrder                                      *)
OptSort(sortBy) == IF sortBy.defined THEN sortBy.sort ELSE Undefined

OptSortOrder(sortBy) == IF sortBy.defined THEN sortBy.sortOrder ELSE Undefined

(* getSortByText with the order test applied to every branch.              *)
getSortByTextAscOnly(sortBy) ==
  IF OptSortOrder(sortBy) # "asc" THEN "newest"
  ELSE IF OptSort(sortBy) = "created" THEN "oldest"
  ELSE IF OptSort(sortBy) = "topic" THEN "topic"
  ELSE IF OptSort(sortBy) = "origin" THEN "origin"
  ELSE "newest"

getSortByText(sortBy) ==
  IF OptSort(sortBy) = "created" /\ OptSortOrder(sortBy) = "asc" THEN "oldest"
  ELSE IF OptSort(sortBy) = "topic" THEN "topic"
  ELSE IF OptSort(sortBy) = "origin" THEN "origin"
  ELSE "newest"

(* `if (x)` on a boolean | undefined                                       *)
Truthy(b) == b = "true"

(* The derivation with the unreadOnly tests ahead of the saved test.       *)
ViewValueUnreadFirst(u, s) ==
  IF Truthy(u) THEN "unread"
  ELSE IF u = "false" THEN "read"
  ELSE IF Truthy(s) THEN "saved"
  ELSE "all"

ViewValue(u, s) ==
  IF Truthy(s) THEN "saved"
  ELSE IF Truthy(u) THEN "unread"
  ELSE IF u = "false" THEN "read"
  ELSE "all"

Init ==
  /\ unreadOnly \in Tri
  /\ saved \in Tri
  /\ createdAfter \in CreatedAfterValues
  /\ sorting \in SortByValues
  /\ viewValue = ViewValue(unreadOnly, saved)
  /\ sortByText = getSortByText(sorting)
  /\ createdAfterOptions = CreatedAfterOptionsInit
  /\ heap = HeapInit
  /\ received = {}
  /\ event = [handler |-> "none", value |-> ""]
  /\ calls = <<>>
  /\ threw = FALSE

(* The parent renders the component with new props.  Each of its pieces of *)
(* state (the view pair, the date cutoff, the sorting) changes on its own. *)
Render(u, s, c, so) ==
  /\ \/ <<u, s>> # <<unreadOnly, saved>> /\ c = createdAfter /\ so = sorting
     \/ <<u, s>> = <<unreadOnly, saved>> /\ c # createdAfter /\ so = sorting
     \/ <<u, s>> = <<unreadOnly, saved>> /\ c = createdAfter /\ so # sorting
  /\ unreadOnly' = u
  /\ saved' = s
  /\ createdAfter' = c
  /\ sorting' = so
  /\ viewValue' = ViewValue(u, s)
  /\ sortByText' = getSortByText(so)
  /\ UNCHANGED <<tables, received, event, calls, threw>>

(* ---------------- handlers ---------------- *)

Call(cb, arg) == [cb |-> cb, arg |-> arg]

(* `event.target.value as string`: the cast has no effect at run time.     *)
AsString(v) == v

(* The handler with a default for an empty value, as the sort-by one has.  *)
HandleOnCreatedAfterChangedDefaulted(v) ==
  /\ event' = [handler |-> "createdAfter", value |-> v]
  /\ calls' = <<Call("onCreatedAfterChanged", IF AsString(v) = "" THEN "all" ELSE AsString(v))>>
  /\ threw' = FALSE
  /\ UNCHANGED <<props, derived, tables, received>>

HandleOnCreatedAfterChanged(v) ==
  /\ event' = [handler |-> "createdAfter", value |-> v]
  /\ calls' = <<Call("onCreatedAfterChanged", AsString(v))>>
  /\ threw' = FALSE
  /\ UNCHANGED <<props, derived, tables, received>>

(* The handler with the two callbacks invoked in the opposite order.       *)
HandleOnViewChangedSavedFirst(v) ==
  /\ event' = [handler |-> "view", value |-> v]
  /\ calls' =
       IF v = "unread" THEN
         <<Call("onSavedChanged", Undefined), Call("onUnreadOnlyChanged", "true")>>
       ELSE IF v = "read" THEN
         <<Call("onSavedChanged", Undefined), Call("onUnreadOnlyChanged", "false")>>
       ELSE IF v = "saved" THEN
         <<Call("onSavedChanged", "true"), Call("onUnreadOnlyChanged", Undefined)>>
       ELSE
         <<Call("onSavedChanged", Undefined), Call("onUnreadOnlyChanged", Undefined)>>
  /\ threw' = FALSE
  /\ UNCHANGED <<props, derived, tables, received>>

HandleOnViewChanged(v) ==
  /\ event' = [handler |-> "view", value |-> v]
  /\ calls' =
       IF v = "unread" THEN
         <<Call("onUnreadOnlyChanged", "true"), Call("onSavedChanged", Undefined)>>
       ELSE IF v = "read" THEN
         <<Call("onUnreadOnlyChanged", "false"), Call("onSavedChanged", Undefined)>>
       ELSE IF v = "saved" THEN
         <<Call("onUnreadOnlyChanged", Undefined), Call("onSavedChanged", "true")>>
       ELSE
         <<Call("onUnreadOnlyChanged", Undefined), Call("onSavedChanged", Undefined)>>
  /\ threw' = FALSE
  /\ UNCHANGED <<props, derived, tables, received>>

(* (event.target.value as string) || 'newest'                              *)
OrNewest(v) == IF AsString(v) = "" THEN "newest" ELSE AsString(v)

(* SortByOptions[idx]: an entry of the table, a property inherited from    *)
(* Object.prototype, or undefined.                                         *)
OptionKind(idx) ==
  IF idx \in DOMAIN SortByOptions THEN "entry"
  ELSE IF idx \in InheritedKeys THEN "inherited"
  ELSE Undefined

(* option.sortBy, for an option that is not undefined: a reference, 0 for  *)
(* undefined.                                                              *)
OptionSortBy(idx) ==
  IF OptionKind(idx) = "entry" THEN SortByOptions[idx].sortBy ELSE 0

(* What the argument of onSortingChanged looks like when it is passed.     *)
Show(obj) == obj.sort \o ":" \o obj.sortOrder

(* `option.sortBy` passed as it is, without the spread.                    *)
SpreadRefAliased(src, slot) == IF src = 0 THEN slot ELSE src

(* `{ ...src }` evaluates to a new object, placed at `slot`.               *)
SpreadRef(src, slot) == slot

(* The properties `{ ...src }` has: those of src, none for undefined.      *)
SpreadProps(h, src) == IF src = 0 THEN EmptyObject ELSE h[src]

HandleOnSortByChanged(v, slot) ==
  /\ event' = [handler |-> "sortBy", value |-> v]
  /\ LET idx == OrNewest(v)
     IN IF OptionKind(idx) = Undefined
        THEN \* option is undefined: reading option.sortBy raises a TypeError
             /\ threw' = TRUE
             /\ calls' = <<>>
             /\ UNCHANGED <<heap, received>>
        ELSE LET src == OptionSortBy(idx)
                 o   == SpreadRef(src, slot)
             IN /\ threw' = FALSE
                /\ heap' = IF o = slot
                           THEN [heap EXCEPT ![slot] = SpreadProps(heap, src)]
                           ELSE heap
                /\ received' = IF o = slot
                               THEN received \cup {slot}
                               ELSE (received \ {slot}) \cup {o}
                /\ calls' = <<Call("onSortingChanged", Show(heap'[o]))>>
  /\ UNCHANGED <<props, derived, createdAfterOptions>>

(* ---------------- the parent ---------------- *)

(* The parent assigns to the properties of an object it received.          *)
ParentMutates(o, s, ord) ==
  /\ o \in received
  /\ heap[o] # [sort |-> s, sortOrder |-> ord]
  /\ heap' = [heap EXCEPT ![o] = [sort |-> s, sortOrder |-> ord]]
  /\ UNCHANGED <<props, derived, createdAfterOptions, received, event, calls, threw>>

Next ==
  \/ \E u \in Tri, s \in Tri : Render(u, s, createdAfter, sorting)
  \/ \E c \in CreatedAfterValues : Render(unreadOnly, saved, c, sorting)
  \/ \E so \in SortByValues : Render(unreadOnly, saved, createdAfter, so)
  \/ \E v \in CreatedAfterEventValues : HandleOnCreatedAfterChanged(v)
  \/ \E v \in ViewEventValues : HandleOnViewChanged(v)
  \/ \E v \in SortByEventValues, slot \in FreshIds : HandleOnSortByChanged(v, slot)
  \/ \E o \in ObjIds, s \in SortFields, ord \in SortOrders : ParentMutates(o, s, ord)

Spec == Init /\ [][Next]_vars

(* ======================= properties ======================= *)

CallsTo(cb) == Cardinality({i \in DOMAIN calls : calls[i].cb = cb})

C2_NoHandlerThrows == threw = FALSE

(* C3: both tables keep their initial contents, no table object is ever    *)
(* in the parent's hands, and a sort-by event selecting an entry passes    *)
(* onSortingChanged an object with that entry's sort and sortOrder.        *)
C3_TablesImmutable ==
  /\ createdAfterOptions = CreatedAfterOptionsInit
  /\ \A o \in TableIds : heap[o] = HeapInit[o]
  /\ received \cap TableIds = {}
  /\ LET key == IF event.value = "" THEN "newest" ELSE event.value
     IN event.handler = "sortBy" /\ key \in {"newest", "oldest", "topic", "origin"} =>
          /\ Len(calls) = 1
          /\ calls[1].cb = "onSortingChanged"
          /\ calls[1].arg =
               (CASE key = "newest" -> "created:desc"
                  [] key = "oldest" -> "created:asc"
                  [] key = "topic"  -> "topic:asc"
                  [] key = "origin" -> "origin:asc")

(* The parent has changed the object a sort-by event handed to it.         *)
C3_Witness ==
  /\ event = [handler |-> "sortBy", value |-> "topic"]
  /\ Len(calls) = 1
  /\ calls[1].arg = "topic:asc"
  /\ \E o \in received : heap[o] = [sort |-> "created", sortOrder |-> "desc"]

(* C4: a created-after event invokes onCreatedAfterChanged once and        *)
(* nothing else, a sort-by event invokes onSortingChanged once and nothing *)
(* else, a view event invokes only onUnreadOnlyChanged and onSavedChanged, *)
(* and the displayed values are functions of the current props.            *)
C4_HandlersDelegateToOwnCallbacks ==
  /\ event.handler = "createdAfter" =>
       CallsTo("onCreatedAfterChanged") = 1 /\ Len(calls) = 1
  /\ event.handler = "sortBy" =>
       CallsTo("onSortingChanged") = 1 /\ Len(calls) = 1
  /\ event.handler = "view" =>
       \A i \in DOMAIN calls : calls[i].cb \in {"onUnreadOnlyChanged", "onSavedChanged"}
  /\ viewValue = ViewValue(unreadOnly, saved)
  /\ sortByText = getSortByText(sorting)

(* C5: a view event invokes onUnreadOnlyChanged and then onSavedChanged,   *)
(* once each, with (true, undefined) for 'unread', (false, undefined) for  *)
(* 'read', (undefined, true) for 'saved' and (undefined, undefined) for    *)
(* every other value.                                                      *)
C5_ViewChangeCallbacks ==
  event.handler = "view" =>
    /\ Len(calls) = 2
    /\ calls[1].cb = "onUnreadOnlyChanged"
    /\ calls[2].cb = "onSavedChanged"
    /\ <<calls[1].arg, calls[2].arg>> =
         (CASE event.value = "unread" -> <<"true", "undefined">>
            [] event.value = "read"   -> <<"false", "undefined">>
            [] event.value = "saved"  -> <<"undefined", "true">>
            [] OTHER                  -> <<"undefined", "undefined">>)

C5_Witness ==
  /\ event = [handler |-> "view", value |-> "saved"]
  /\ Len(calls) = 2
  /\ calls[2] = [cb |-> "onSavedChanged", arg |-> "true"]

(* C6: the view select shows 'saved' when saved is true, otherwise         *)
(* 'unread' when unreadOnly is true, 'read' when it is false and 'all'     *)
(* when it is undefined; the value is always one of the four menu values.  *)
C6_ViewValueSavedFirst ==
  /\ saved = "true" => viewValue = "saved"
  /\ saved \in {"false", "undefined"} =>
       /\ unreadOnly = "true" => viewValue = "unread"
       /\ unreadOnly = "false" => viewValue = "read"
       /\ unreadOnly = "undefined" => viewValue = "all"
  /\ viewValue \in {"unread", "saved", "read", "all"}

C6_Witness ==
  /\ saved = "true"
  /\ unreadOnly = "true"
  /\ viewValue = "saved"

(* C7: the sort-by select shows 'oldest' for created/asc, 'topic' for      *)
(* topic and 'origin' for origin whatever the order, 'newest' for          *)
(* everything else, undefined included; the value is always a key of       *)
(* SortByOptions.                                                          *)
C7_SortByTextIsAKey ==
  /\ sortByText \in {"newest", "oldest", "topic", "origin"}
  /\ sortByText =
       (CASE sorting.defined /\ sorting.sort = "created" /\ sorting.sortOrder = "asc"
               -> "oldest"
          [] sorting.defined /\ sorting.sort = "topic" -> "topic"
          [] sorting.defined /\ sorting.sort = "origin" -> "origin"
          [] OTHER -> "newest")

C7_Witness ==
  /\ sorting = [defined |-> TRUE, sort |-> "topic", sortOrder |-> "desc"]
  /\ sortByText = "topic"

====
